---- MODULE Spec2Model ----
(***************************************************************************)
(* Model of app.py of FinancialGoalSimulator: the Monte Carlo engine       *)
(* run_monte_carlo_simulation, and the part of the Streamlit script that   *)
(* consumes its result (inflation adjustment, "last monthly rate").        *)
(*                                                                         *)
(* Money and rates are exact rationals [n, d] in lowest terms: the model   *)
(* follows the arithmetic of the code over the reals and leaves the        *)
(* rounding of IEEE doubles out.                                           *)
(***************************************************************************)
EXTENDS Integers, Sequences, FiniteSets, TLC

VARIABLES
    cfg,                          \* the sidebar values / the call's arguments
    pc,                           \* position in the script
    run,                          \* number of the current press of "Start simulation"
    rng,                          \* state of numpy's global generator
    i, month,                     \* loop indices of run_monte_carlo_simulation
    capital, current_monthly_contribution, total_invested,   \* its locals
    all_simulation_paths,         \* its matrix, [month][simulation]
    invested_capital_path,        \* its reference path
    simulation_results,           \* script level: the matrix, adjusted or not
    invested_shown,               \* script level: invested_capital_path, adjusted or not
    final_values, total_shown,    \* script level: lines 87 and 91
    last_rate,                    \* script level: line 99
    draws,                        \* history: the returns drawn, per simulation
    added,                        \* history: the contributions added, per simulation
    path_writes, invested_writes, \* history: number of assignments to each cell
    calls                         \* history: what each finished call was given and returned

vars == <<cfg, pc, run, rng, i, month, capital, current_monthly_contribution,
          total_invested, all_simulation_paths, invested_capital_path,
          simulation_results, invested_shown, final_values, total_shown,
          last_rate, draws, added, path_writes, invested_writes, calls>>

-----------------------------------------------------------------------------
(* Bounds of the model *)
MaxYears == 2
MaxSims == 2
MaxRuns == 2

(* range(num_months) is years * 12; (month + 1) % 12 *)
MonthsPerYear == 12

-----------------------------------------------------------------------------
(* Exact rational arithmetic *)
Abs(x) == IF x < 0 THEN -x ELSE x

RECURSIVE Gcd(_, _)
Gcd(a, b) == IF b = 0 THEN a ELSE Gcd(b, a % b)

Rat(n, d) ==
    LET s == IF d < 0 THEN -1 ELSE 1
        g == Gcd(Abs(n), Abs(d))
    IN  [n |-> (s * n) \div g, d |-> (s * d) \div g]

R(k) == [n |-> k, d |-> 1]
Zero == R(0)
One == R(1)

RAdd(a, b) ==
    LET l == (a.d \div Gcd(a.d, b.d)) * b.d
    IN  Rat(a.n * (l \div a.d) + b.n * (l \div b.d), l)

RNeg(a) == [n |-> -a.n, d |-> a.d]

RMul(a, b) ==
    LET g1 == Gcd(Abs(a.n), b.d)
        g2 == Gcd(Abs(b.n), a.d)
    IN  IF a.n = 0 \/ b.n = 0 THEN Zero
        ELSE [n |-> (a.n \div g1) * (b.n \div g2), d |-> (a.d \div g2) * (b.d \div g1)]

RDivInt(a, k) == Rat(a.n, a.d * k)

RLeq(a, b) == a.n * b.d <= b.n * a.d

RECURSIVE RPow(_, _)
RPow(a, e) == IF e = 0 THEN One ELSE RMul(a, RPow(a, e - 1))

-----------------------------------------------------------------------------
(* The sidebar: every widget keeps its value inside its range (lines 51-66). *)
(* The model takes a few values of each range; num_simulations stands for    *)
(* the options of the select_slider, scaled down to 1..MaxSims.              *)
InitialCapitals == {R(0), R(10000)}
MonthlyContributions == {R(0), R(500)}
YearsRange == 1..MaxYears
ExpectedReturns == {Zero}
Volatilities == {Zero, Rat(15, 100)}
IncreaseRates == {Zero, Rat(10, 100)}
InflationRates == {Zero, Rat(2, 100)}
AnnualFees == {Zero, Rat(5, 100)}
SimulationOptions == 1..MaxSims

SidebarConfigs ==
    [initial_capital : InitialCapitals,
     monthly_contribution : MonthlyContributions,
     years : YearsRange,
     expected_return : ExpectedReturns,
     volatility : Volatilities,
     contribution_increase_rate : IncreaseRates,
     inflation_rate : InflationRates,
     annual_fee : AnnualFees,
     num_simulations : SimulationOptions]

(* The function itself takes whatever it is given: a direct call may pass    *)
(* values no widget would produce.                                           *)
DirectConfigs ==
    [initial_capital : {R(-1000), R(10000)},
     monthly_contribution : {R(-50), R(500)},
     years : YearsRange,
     expected_return : ExpectedReturns,
     volatility : {Rat(15, 100)},
     contribution_increase_rate : {Zero, Rat(50, 100)},
     inflation_rate : {Zero},
     annual_fee : {Rat(5, 100), Rat(10, 100)},
     num_simulations : SimulationOptions]

(* The ranges the widgets state: min_value / max_value / options. *)
InRange(x, lo, hi) == RLeq(lo, x) /\ RLeq(x, hi)

ValidConfig(c) ==
    /\ RLeq(Zero, c.initial_capital)
    /\ RLeq(Zero, c.monthly_contribution)
    /\ c.years >= 1 /\ c.years <= 50
    /\ InRange(c.expected_return, Zero, Rat(20, 100))
    /\ InRange(c.volatility, Zero, Rat(40, 100))
    /\ InRange(c.contribution_increase_rate, Zero, Rat(10, 100))
    /\ InRange(c.inflation_rate, Zero, Rat(75, 1000))
    /\ InRange(c.annual_fee, Zero, Rat(5, 100))
    /\ c.num_simulations \in SimulationOptions

-----------------------------------------------------------------------------
(* numpy's global generator: a state that every draw advances.  The model's  *)
(* generator has the eight states 0..7.                                      *)
(* the states the generator is found in when the script starts *)
Seeds == {0, 1}
RngNext(x) == (5 * x + 3) % 8

(* The deviation from the mean that the generator yields in state x when the *)
(* standard deviation is positive: a normal variate can be any real.         *)
Deviate(x) ==
    CASE x \in {0, 4, 6} -> R(1)
      [] x \in {1, 3, 5} -> Rat(-1, 2)
      [] OTHER -> Zero

NormalOfOtherSource(loc, scale, x) ==
    IF scale.n = 0 THEN loc ELSE RAdd(loc, Deviate((x + run) % 8))

(* np.random.normal(loc, scale): loc itself when scale is 0. *)
Normal(loc, scale, x) == IF scale.n = 0 THEN loc ELSE RAdd(loc, Deviate(x))

(* line 11 *)
monthly_return(c) == RDivInt(c.expected_return, 12)
(* line 12: volatility / sqrt(12) is irrational; Normal reads only whether   *)
(* it is zero, and it is zero exactly when volatility is.                    *)
monthly_volatility(c) == c.volatility
num_months_short(c) == c.years * MonthsPerYear - 1
(* line 13 *)
num_months(c) == c.years * MonthsPerYear

-----------------------------------------------------------------------------
(* The steps of one month, lines 28-37 *)
Grow(cap, r) == RMul(cap, RAdd(One, r))
Contribute(cap, contribution) == RAdd(cap, contribution)
YearEndOfMonthIndex(m) == m % MonthsPerYear = 0
YearEnd(m) == (m + 1) % MonthsPerYear = 0
ApplyFee(cap, fee) == RMul(cap, RAdd(One, RNeg(fee)))
Escalate(contribution, rate) == RMul(contribution, RAdd(One, rate))
RecordsInvestedAlways(sim) == TRUE
RecordsInvested(sim) == sim = 0

(* invested_capital_path[month + 1], line 33 *)
InvestedIndexSameMonth(m) == m
InvestedIndex(m) == m + 1

MonthCapitalContributionFirst(cap, r, contribution, fee, m) ==
    LET c1 == Grow(Contribute(cap, contribution), r)
    IN  IF (m + 1) % MonthsPerYear = 0 THEN ApplyFee(c1, fee) ELSE c1

(* capital as line 39 records it for month index m + 1 *)
MonthCapital(cap, r, contribution, fee, m) ==
    LET c1 == Contribute(Grow(cap, r), contribution)
    IN  IF YearEnd(m) THEN ApplyFee(c1, fee) ELSE c1

(* current_monthly_contribution after the month *)
MonthContribution(contribution, rate, m) ==
    IF YearEnd(m) THEN Escalate(contribution, rate) ELSE contribution

-----------------------------------------------------------------------------
Sims(c) == 0..(c.num_simulations - 1)
Months(c) == 0..num_months(c)

InitWith(configs) ==
    /\ cfg \in configs
    /\ rng \in Seeds
    /\ pc = "idle"
    /\ run = 0
    /\ i = 0 /\ month = 0
    /\ capital = Zero /\ current_monthly_contribution = Zero /\ total_invested = Zero
    /\ all_simulation_paths = <<>> /\ invested_capital_path = <<>>
    /\ simulation_results = <<>> /\ invested_shown = <<>>
    /\ final_values = <<>> /\ total_shown = Zero
    /\ last_rate = Zero
    /\ draws = <<>> /\ added = <<>>
    /\ path_writes = <<>> /\ invested_writes = <<>>
    /\ calls = <<>>

Init == InitWith(SidebarConfigs)

(* "Start simulation" is pressed (line 68) and the call begins: lines 11-19 *)
Start ==
    /\ pc \in {"idle", "shown"}
    /\ run < MaxRuns
    /\ run' = run + 1
    /\ all_simulation_paths' =
           [m \in Months(cfg) |-> [s \in Sims(cfg) |->
               IF m = 0 THEN cfg.initial_capital ELSE Zero]]
    /\ invested_capital_path' =
           [m \in Months(cfg) |-> IF m = 0 THEN cfg.initial_capital ELSE Zero]
    /\ path_writes' = [m \in Months(cfg) |-> [s \in Sims(cfg) |-> IF m = 0 THEN 1 ELSE 0]]
    /\ invested_writes' = [m \in Months(cfg) |-> IF m = 0 THEN 1 ELSE 0]
    /\ draws' = [s \in Sims(cfg) |-> <<>>]
    /\ added' = [s \in Sims(cfg) |-> <<>>]
    /\ calls' = Append(calls, [rng0 |-> rng, returned |-> FALSE,
                               paths |-> <<>>, invested |-> <<>>])
    /\ i' = 0
    /\ pc' = "outer"
    /\ UNCHANGED <<cfg, rng, month, capital, current_monthly_contribution,
                   total_invested, simulation_results, invested_shown, final_values, total_shown, last_rate>>

BeginSimulationContributionKept ==
    /\ pc = "outer"
    /\ i < cfg.num_simulations
    /\ capital' = cfg.initial_capital
    /\ current_monthly_contribution' =
           IF i = 0 THEN cfg.monthly_contribution ELSE current_monthly_contribution
    /\ total_invested' = cfg.initial_capital
    /\ month' = 0
    /\ pc' = "inner"
    /\ UNCHANGED <<cfg, run, rng, i, all_simulation_paths, invested_capital_path,
                   simulation_results, invested_shown, final_values, total_shown,
                   last_rate, draws, added, path_writes, invested_writes, calls>>

(* for i in range(num_simulations): lines 21-24 *)
BeginSimulation ==
    /\ pc = "outer"
    /\ i < cfg.num_simulations
    /\ capital' = cfg.initial_capital
    /\ current_monthly_contribution' = cfg.monthly_contribution
    /\ total_invested' = cfg.initial_capital
    /\ month' = 0
    /\ pc' = "inner"
    /\ UNCHANGED <<cfg, run, rng, i, all_simulation_paths, invested_capital_path,
                   simulation_results, invested_shown, final_values, total_shown, last_rate, draws, added,
                   path_writes, invested_writes, calls>>

(* one pass of: for month in range(num_months), lines 26-39 *)
MonthStep ==
    /\ pc = "inner"
    /\ month < num_months(cfg)
    /\ LET random_return == Normal(monthly_return(cfg), monthly_volatility(cfg), rng)
           cap == MonthCapital(capital, random_return, current_monthly_contribution,
                               cfg.annual_fee, month)
           invested == RAdd(total_invested, current_monthly_contribution)
       IN  /\ rng' = RngNext(rng)
           /\ capital' = cap
           /\ IF RecordsInvested(i)
              THEN /\ total_invested' = invested
                   /\ invested_capital_path' =
                          [invested_capital_path EXCEPT ![InvestedIndex(month)] = invested]
                   /\ invested_writes' =
                          [invested_writes EXCEPT ![InvestedIndex(month)] = @ + 1]
              ELSE UNCHANGED <<total_invested, invested_capital_path, invested_writes>>
           /\ current_monthly_contribution' =
                  MonthContribution(current_monthly_contribution,
                                    cfg.contribution_increase_rate, month)
           /\ all_simulation_paths' = [all_simulation_paths EXCEPT ![month + 1][i] = cap]
           /\ path_writes' = [path_writes EXCEPT ![month + 1][i] = @ + 1]
           /\ draws' = [draws EXCEPT ![i] = Append(@, random_return)]
           /\ added' = [added EXCEPT ![i] = Append(@, current_monthly_contribution)]
    /\ month' = month + 1
    /\ UNCHANGED <<cfg, pc, run, i, simulation_results, invested_shown, final_values, total_shown, last_rate, calls>>

(* the inner loop is exhausted: next i *)
EndSimulation ==
    /\ pc = "inner"
    /\ month = num_months(cfg)
    /\ i' = i + 1
    /\ pc' = "outer"
    /\ UNCHANGED <<cfg, run, rng, month, capital, current_monthly_contribution,
                   total_invested, all_simulation_paths, invested_capital_path,
                   simulation_results, invested_shown, final_values, total_shown, last_rate, draws, added,
                   path_writes, invested_writes, calls>>

(* line 41, received at lines 71-74 *)
Return ==
    /\ pc = "outer"
    /\ i = cfg.num_simulations
    /\ simulation_results' = all_simulation_paths
    /\ invested_shown' = invested_capital_path
    /\ calls' = [calls EXCEPT ![Len(calls)] =
                    [@ EXCEPT !.returned = TRUE,
                              !.paths = all_simulation_paths,
                              !.invested = invested_capital_path]]
    /\ pc' = "returned"
    /\ UNCHANGED <<cfg, run, rng, i, month, capital, current_monthly_contribution,
                   total_invested, all_simulation_paths, invested_capital_path,
                   final_values, total_shown, last_rate, draws, added,
                   path_writes, invested_writes>>

-----------------------------------------------------------------------------
(* The script after the call *)

(* (1 + inflation_rate / 12) ** m, kept as base and exponent: for m up to    *)
(* years * 12 its value in lowest terms does not fit a 32-bit integer.       *)
Power(base, e) == [base |-> base, exp |-> e]

discount_factors_shifted(c) ==
    [m \in Months(c) |-> Power(RAdd(One, RDivInt(c.inflation_rate, 12)), m + 1)]

(* lines 80-81 *)
discount_factors(c) ==
    [m \in Months(c) |-> Power(RAdd(One, RDivInt(c.inflation_rate, 12)), m)]

(* x / p: x itself when p is base ** 0 = 1 or x is 0, and else the quotient  *)
(* of x by the power.                                                        *)
Divide(x, p) ==
    IF p.exp = 0 \/ x.n = 0 THEN x ELSE [num |-> x, base |-> p.base, exp |-> p.exp]

(* if inflation_rate > 0 *)
Adjusts(c) == c.inflation_rate.n > 0

(* lines 79-85 *)
Adjust ==
    /\ pc = "returned"
    /\ IF Adjusts(cfg)
       THEN /\ simulation_results' =
                   [m \in DOMAIN simulation_results |->
                       [s \in DOMAIN simulation_results[m] |->
                           Divide(simulation_results[m][s], discount_factors(cfg)[m])]]
            /\ invested_shown' =
                   [m \in DOMAIN invested_shown |->
                       Divide(invested_shown[m], discount_factors(cfg)[m])]
       ELSE UNCHANGED <<simulation_results, invested_shown>>
    /\ pc' = "adjusted"
    /\ UNCHANGED <<cfg, run, rng, i, month, capital, current_monthly_contribution,
                   total_invested, all_simulation_paths, invested_capital_path,
                   final_values, total_shown, last_rate, draws, added,
                   path_writes, invested_writes, calls>>

LastRateOfYears(c) ==
    RMul(c.monthly_contribution,
         RPow(RAdd(One, c.contribution_increase_rate), c.years))

(* line 99 *)
LastRate(c) ==
    RMul(c.monthly_contribution,
         RPow(RAdd(One, c.contribution_increase_rate), c.years - 1))

(* lines 87-99: the values the metrics show (the percentiles of final_values *)
(* are derived from it and kept nowhere)                                     *)
Summarize ==
    /\ pc = "adjusted"
    /\ final_values' = simulation_results[num_months(cfg)]
    /\ total_shown' = invested_shown[num_months(cfg)]
    /\ last_rate' = LastRate(cfg)
    /\ pc' = "shown"
    /\ UNCHANGED <<cfg, run, rng, i, month, capital, current_monthly_contribution,
                   total_invested, all_simulation_paths, invested_capital_path,
                   simulation_results, invested_shown, draws, added,
                   path_writes, invested_writes, calls>>

-----------------------------------------------------------------------------
(* The function alone *)
Engine == Start \/ BeginSimulation \/ MonthStep \/ EndSimulation \/ Return

(* The application: the sidebar, the call, the script after it; the button   *)
(* can be pressed again once the results are shown.                          *)
Next == Engine \/ Adjust \/ Summarize

Spec == Init /\ [][Next]_vars

(* run_monte_carlo_simulation called directly, with arguments of any value *)
InitDirect == InitWith(DirectConfigs)

NextDirect == Engine

SpecDirect == InitDirect /\ [][NextDirect]_vars

-----------------------------------------------------------------------------
(* Reference values the claims are stated with *)

InCall == pc \in {"outer", "inner", "returned", "adjusted", "shown"}
Returned == pc \in {"returned", "adjusted", "shown"}
LastMonth == cfg.years * MonthsPerYear

(* monthly_contribution * (1 + contribution_increase_rate)^floor((m-1)/12) *)
ContributionOfMonth(c, m) ==
    RMul(c.monthly_contribution,
         RPow(RAdd(One, c.contribution_increase_rate), (m - 1) \div MonthsPerYear))

(* the contributions of the first y whole years: 12 months at each year's    *)
(* rate                                                                      *)
RECURSIVE YearsSum(_, _, _)
YearsSum(mc, rate, y) ==
    IF y = 0 THEN Zero
    ELSE RAdd(YearsSum(mc, rate, y - 1),
              RMul(R(MonthsPerYear), RMul(mc, RPow(RAdd(One, rate), y - 1))))

(* initial_capital plus the contributions of months 1..m: a function of the  *)
(* four values alone                                                         *)
InvestedAt(ic, mc, rate, m) ==
    RAdd(RAdd(ic, YearsSum(mc, rate, m \div MonthsPerYear)),
         RMul(R(m % MonthsPerYear),
              RMul(mc, RPow(RAdd(One, rate), m \div MonthsPerYear))))

(* growth, then contribution, then the fee if m is a multiple of 12 *)
AfterMonth(prev, r, contribution, fee, m) ==
    LET grown == RMul(prev, RAdd(One, r))
        paid == RAdd(grown, contribution)
    IN  IF m % MonthsPerYear = 0 THEN RMul(paid, RAdd(One, RNeg(fee))) ELSE paid

(* the value of a path at index m, from the configuration and the path's own *)
(* draws ds                                                                  *)
RECURSIVE PathValue(_, _, _)
PathValue(c, ds, m) ==
    IF m = 0 THEN c.initial_capital
    ELSE AfterMonth(PathValue(c, ds, m - 1), ds[m], ContributionOfMonth(c, m),
                    c.annual_fee, m)

Scenario ==
    /\ cfg.initial_capital = R(10000)
    /\ cfg.monthly_contribution = R(500)
    /\ cfg.years = 1
    /\ cfg.expected_return = Zero
    /\ cfg.volatility = Zero
    /\ cfg.annual_fee = Rat(5, 100)

-----------------------------------------------------------------------------
(* C1: in every month step the value recorded at index m = month + 1 is the  *)
(* value recorded at index m - 1, grown by that month's draw, then increased *)
(* by the current contribution, then, only if m is a multiple of 12,         *)
(* multiplied by 1 - annual_fee; and in the scenario (return 0, volatility   *)
(* 0, initial 10000, contribution 500, fee 0.05, 1 year) month 12 holds      *)
(* 15200.                                                                    *)
C1_MonthOrder ==
    /\ [](Scenario /\ Returned => all_simulation_paths[12][0] = R(15200))
    /\ [][MonthStep =>
            all_simulation_paths'[month + 1][i] =
                AfterMonth(all_simulation_paths[month][i], draws'[i][month + 1],
                           current_monthly_contribution, cfg.annual_fee, month + 1)]_vars

C1_Witness ==
    /\ Scenario /\ pc = "returned"
    /\ all_simulation_paths[12][0] = R(15200)
    /\ all_simulation_paths[11][0] = R(15500)

(* C2: the fee is taken and current_monthly_contribution is escalated at the *)
(* end of the months whose index is a multiple of 12, and at no other month; *)
(* the contribution added at month m (the newest entry of the record of      *)
(* contributions, at the time it is added) is                                *)
(* monthly_contribution * (1 + contribution_increase_rate)^floor((m-1)/12).  *)
C2_YearBoundary ==
    /\ [](InCall => \A s \in DOMAIN added : added[s] # <<>> =>
              added[s][Len(added[s])] = ContributionOfMonth(cfg, Len(added[s])))
    /\ [][MonthStep =>
            LET r == draws'[i][month + 1]
                paid == RAdd(RMul(capital, RAdd(One, r)), current_monthly_contribution)
            IN  IF (month + 1) % 12 = 0
                THEN /\ capital' = RMul(paid, RAdd(One, RNeg(cfg.annual_fee)))
                     /\ current_monthly_contribution' =
                            RMul(current_monthly_contribution,
                                 RAdd(One, cfg.contribution_increase_rate))
                ELSE /\ capital' = paid
                     /\ current_monthly_contribution' = current_monthly_contribution]_vars

C2_Witness ==
    /\ pc = "inner" /\ month = 24
    /\ cfg.contribution_increase_rate = Rat(10, 100)
    /\ cfg.annual_fee = Rat(5, 100)
    /\ added[i][12] = R(500) /\ added[i][13] = R(550) /\ added[i][24] = R(550)
    /\ current_monthly_contribution = R(605)

(* C3: the returned invested_capital_path is a function of initial_capital,  *)
(* monthly_contribution, years and contribution_increase_rate alone          *)
(* (whatever the draws, the fee and the number of simulations); each of its  *)
(* entries 1..years*12 is written once, and only while i = 0; entry m is     *)
(* entry m-1 plus the contribution of month m, entry 0 is initial_capital;   *)
(* 16000 at month 12 for initial 10000, contribution 500.                    *)
C3_InvestedPath ==
    /\ [](pc = "returned" =>
            /\ invested_capital_path[0] = cfg.initial_capital
            /\ \A m \in 1..LastMonth :
                  /\ invested_capital_path[m] =
                         RAdd(invested_capital_path[m - 1], ContributionOfMonth(cfg, m))
                  /\ invested_capital_path[m] =
                         InvestedAt(cfg.initial_capital, cfg.monthly_contribution,
                                    cfg.contribution_increase_rate, m)
                  /\ invested_writes[m] = 1
            /\ (cfg.initial_capital = R(10000) /\ cfg.monthly_contribution = R(500)
                    => invested_capital_path[12] = R(16000)))
    /\ [][i # 0 /\ MonthStep =>
            UNCHANGED <<invested_capital_path, invested_writes>>]_vars

C3_Witness ==
    /\ pc = "returned"
    /\ cfg.num_simulations >= 2
    /\ cfg.volatility # Zero /\ cfg.annual_fee # Zero
    /\ cfg.contribution_increase_rate # Zero /\ cfg.years = 2
    /\ invested_capital_path[12] = R(16000)
    /\ invested_capital_path[24] = R(22600)
    /\ invested_writes[24] = 1

(* C4: with initial_capital, monthly_contribution and                        *)
(* contribution_increase_rate all >= 0 the returned invested_capital_path is *)
(* non-decreasing: invested[m] <= invested[m+1] for m in 0..years*12-1.      *)
C4_InvestedMonotone ==
    (Returned /\ RLeq(Zero, cfg.initial_capital) /\ RLeq(Zero, cfg.monthly_contribution)
        /\ RLeq(Zero, cfg.contribution_increase_rate))
    => \A m \in 0..(LastMonth - 1) :
           RLeq(invested_capital_path[m], invested_capital_path[m + 1])

C4_Witness ==
    /\ pc = "returned"
    /\ cfg.monthly_contribution = R(500) /\ cfg.contribution_increase_rate # Zero
    /\ cfg.years = 2
    /\ \A m \in 0..(LastMonth - 1) :
           /\ RLeq(invested_capital_path[m], invested_capital_path[m + 1])
           /\ invested_capital_path[m] # invested_capital_path[m + 1]

(* C5: once the adjustment block has run, the value at month index m of      *)
(* every simulated path and of the invested-capital path is the returned     *)
(* value divided by (1 + inflation_rate/12)^m, for every m in 0..years*12    *)
(* (index 0 unchanged); with inflation_rate = 0 both are exactly as          *)
(* returned.                                                                 *)
C5_InflationAdjustment ==
    pc \in {"adjusted", "shown"} =>
        LET f == RAdd(One, RDivInt(cfg.inflation_rate, 12))
            Scaled(x, m) ==
                IF m = 0 \/ x = Zero THEN x ELSE [num |-> x, base |-> f, exp |-> m]
        IN  IF cfg.inflation_rate = Zero
            THEN /\ simulation_results = all_simulation_paths
                 /\ invested_shown = invested_capital_path
            ELSE /\ DOMAIN simulation_results = 0..LastMonth
                 /\ DOMAIN invested_shown = 0..LastMonth
                 /\ \A m \in 0..LastMonth :
                       /\ invested_shown[m] = Scaled(invested_capital_path[m], m)
                       /\ DOMAIN simulation_results[m] = Sims(cfg)
                       /\ \A s \in Sims(cfg) :
                             simulation_results[m][s] =
                                 Scaled(all_simulation_paths[m][s], m)

C5_Witness ==
    /\ pc = "adjusted"
    /\ cfg.inflation_rate = Rat(2, 100)
    /\ cfg.years = 2 /\ cfg.num_simulations = 2
    /\ simulation_results[0][1] = cfg.initial_capital
    /\ simulation_results[24][1] =
           [num |-> all_simulation_paths[24][1], base |-> Rat(601, 600), exp |-> 24]
    /\ invested_shown[24] = [num |-> R(22000), base |-> Rat(601, 600), exp |-> 24]

(* C6: a configuration with a field outside its documented bound is         *)
(* rejected before any simulation work begins: no random draw is made and    *)
(* no capital path entry is computed for it.                                 *)
C6_InvalidConfigRejected ==
    ~ValidConfig(cfg) =>
        /\ \A s \in DOMAIN draws : draws[s] = <<>>
        /\ \A m \in DOMAIN path_writes : m >= 1 =>
               \A s \in DOMAIN path_writes[m] : path_writes[m][s] = 0

(* C7: two calls with the same configuration that find the generator in the  *)
(* same state (the same seed, hence the same draws in the same order) return *)
(* identical capital matrices and identical invested-capital paths.          *)
C7_Deterministic ==
    \A a, b \in DOMAIN calls :
        (calls[a].returned /\ calls[b].returned /\ calls[a].rng0 = calls[b].rng0)
            => /\ calls[a].paths = calls[b].paths
               /\ calls[a].invested = calls[b].invested

C7_Witness ==
    /\ Len(calls) = 2
    /\ calls[1].returned /\ calls[2].returned
    /\ calls[1].rng0 = calls[2].rng0
    /\ cfg.num_simulations = 2
    /\ cfg.volatility # Zero /\ cfg.initial_capital # Zero
    /\ calls[1].paths = calls[2].paths
    /\ calls[1].paths[12][0] # calls[1].paths[12][1]

(* C8: when the call has returned, every column of the matrix and the        *)
(* invested-capital path have the indices 0..years*12, index 0 of each holds *)
(* initial_capital, and every index 1..years*12 of each has been assigned by *)
(* the loop, with the state after that many months.                          *)
C8_Shape ==
    Returned =>
        /\ DOMAIN all_simulation_paths = 0..(cfg.years * 12)
        /\ DOMAIN invested_capital_path = 0..(cfg.years * 12)
        /\ invested_capital_path[0] = cfg.initial_capital
        /\ \A m \in 1..(cfg.years * 12) : invested_writes[m] >= 1
        /\ \A m \in 0..(cfg.years * 12) :
              DOMAIN all_simulation_paths[m] = 0..(cfg.num_simulations - 1)
        /\ \A s \in 0..(cfg.num_simulations - 1) :
              /\ all_simulation_paths[0][s] = cfg.initial_capital
              /\ Len(draws[s]) = cfg.years * 12
              /\ \A m \in 1..(cfg.years * 12) : path_writes[m][s] >= 1

C8_Witness ==
    /\ pc = "returned"
    /\ cfg.years = 2 /\ cfg.num_simulations = 2
    /\ cfg.initial_capital = R(10000)
    /\ path_writes[24][1] = 1 /\ invested_writes[24] = 1
    /\ all_simulation_paths[0][1] = R(10000)

(* C9: every simulation starts from initial_capital and                      *)
(* monthly_contribution; column i of the matrix is determined by the         *)
(* configuration and the draws of simulation i alone: each cell is computed  *)
(* from the cell above it in the same column, the simulation's own draw and  *)
(* the contribution the configuration fixes for that month, whatever the     *)
(* other simulations drew, and the last cell of a returned column is the     *)
(* value computed from the column's draws; a month step of simulation i      *)
(* writes the cell of its month in column i and no other cell.               *)
C9_Independent ==
    /\ [](pc = "inner" /\ month = 0 =>
            /\ capital = cfg.initial_capital
            /\ current_monthly_contribution = cfg.monthly_contribution)
    /\ [](pc = "returned" => \A s \in Sims(cfg) :
              all_simulation_paths[LastMonth][s] = PathValue(cfg, draws[s], LastMonth))
    /\ [][MonthStep =>
            /\ all_simulation_paths'[month + 1][i] =
                   AfterMonth(all_simulation_paths[month][i], draws'[i][month + 1],
                              ContributionOfMonth(cfg, month + 1), cfg.annual_fee,
                              month + 1)
            /\ \A s \in Sims(cfg) : s # i => draws'[s] = draws[s]
            /\ \A m \in DOMAIN all_simulation_paths :
                  \A s \in DOMAIN all_simulation_paths[m] :
                      (s # i \/ m # month + 1) =>
                          all_simulation_paths'[m][s] = all_simulation_paths[m][s]]_vars
    /\ [][pc # "inner" /\ pc # "idle" /\ pc # "shown" =>
            UNCHANGED all_simulation_paths]_vars

C9_Witness ==
    /\ pc = "inner" /\ i = 1 /\ month = 0
    /\ cfg.years = 2
    /\ cfg.contribution_increase_rate # Zero /\ cfg.monthly_contribution # Zero
    /\ cfg.volatility # Zero
    /\ current_monthly_contribution = cfg.monthly_contribution
    /\ added[0][24] # cfg.monthly_contribution
    /\ draws[0] # <<>>

(* C10: the last monthly rate shown,                                         *)
(* monthly_contribution * (1 + contribution_increase_rate)^(years - 1), is   *)
(* the amount the loop added in month years*12 of every path; it is a        *)
(* nominal amount, not divided by the inflation factor.                      *)
C10_LastRate ==
    pc = "shown" =>
        /\ \A s \in Sims(cfg) : added[s][cfg.years * 12] = last_rate
        /\ last_rate = RMul(cfg.monthly_contribution,
                            RPow(RAdd(One, cfg.contribution_increase_rate),
                                 cfg.years - 1))

C10_Witness ==
    /\ pc = "shown"
    /\ cfg.years = 2 /\ cfg.inflation_rate # Zero
    /\ cfg.monthly_contribution = R(500)
    /\ cfg.contribution_increase_rate = Rat(10, 100)
    /\ last_rate = R(550)
    /\ added[0][24] = R(550)
    /\ total_shown = [num |-> R(22600), base |-> Rat(601, 600), exp |-> 24]

====
